---------------------------- MODULE Spec2Model ----------------------------
(***************************************************************************)
(* mgf-rangecoding: PDFSet::finalize quantizes a sum of probability        *)
(* density functions over the byte alphabet into a u32 frequency table     *)
(* (QuantizedPDFSet), whose find_index inverts the cumulative table by     *)
(* binary search.                                                          *)
(*                                                                         *)
(* TLC's integers are 32-bit signed, so the program's u32, u64 and f64     *)
(* quantities are kept as arbitrary-precision naturals: little-endian      *)
(* sequences of base-2^15 limbs without leading zero limbs (zero is <<>>). *)
(* An f64 is a record [cls, man, exp]: cls "fin" is the value              *)
(* man * 2^exp with man odd (or zero), of at most 53 significant bits;     *)
(* cls "inf" is +infinity, cls "nan" is NaN.  Weights are non-negative, so *)
(* no sign is carried.  Every f64 operation rounds to nearest, ties to     *)
(* even, as the hardware does.  Gradual underflow is not modelled (no      *)
(* quotient of the weights below comes near 2^-1022).                      *)
(***************************************************************************)
EXTENDS Integers, Sequences, FiniteSets, TLC

----------------------------------------------------------------------------
(* Bounds of the model. *)

\* Longest pdf_list the model builds.
MaxPdfs == 2

----------------------------------------------------------------------------
(* Arbitrary-precision naturals. *)

\* Half of the 32 bits of a TLC integer, less one, so that a product of two
\* limbs plus a carry fits.
LimbBits == (32 \div 2) - 1

Pow2Int(n) == 2 ^ n

Base == Pow2Int(LimbBits)

RECURSIVE IntBitLen(_)
IntBitLen(n) == IF n = 0 THEN 0 ELSE 1 + IntBitLen(n \div 2)

RECURSIVE NatOfInt(_)
NatOfInt(n) == IF n = 0 THEN <<>> ELSE <<n % Base>> \o NatOfInt(n \div Base)

RECURSIVE NatTrim(_)
NatTrim(a) ==
    IF a = <<>> THEN <<>>
    ELSE IF a[Len(a)] = 0 THEN NatTrim(SubSeq(a, 1, Len(a) - 1))
    ELSE a

RECURSIVE NatAddC(_, _, _)
NatAddC(a, b, c) ==
    IF a = <<>> /\ b = <<>> THEN (IF c = 0 THEN <<>> ELSE <<c>>)
    ELSE LET x == IF a = <<>> THEN 0 ELSE Head(a)
             y == IF b = <<>> THEN 0 ELSE Head(b)
             s == x + y + c
         IN  <<s % Base>> \o NatAddC(IF a = <<>> THEN <<>> ELSE Tail(a),
                                     IF b = <<>> THEN <<>> ELSE Tail(b),
                                     s \div Base)

NatAdd(a, b) == NatAddC(a, b, 0)

\* a - b for a >= b, before trimming.
RECURSIVE NatSubB(_, _, _)
NatSubB(a, b, c) ==
    IF a = <<>> THEN <<>>
    ELSE LET y == IF b = <<>> THEN 0 ELSE Head(b)
             d == Head(a) - y - c
         IN  <<IF d < 0 THEN d + Base ELSE d>>
                 \o NatSubB(Tail(a), IF b = <<>> THEN <<>> ELSE Tail(b),
                            IF d < 0 THEN 1 ELSE 0)

NatSub(a, b) == NatTrim(NatSubB(a, b, 0))

\* Compares limbs i, i-1, ..., 1 of two naturals of the same length.
RECURSIVE NatLeqFrom(_, _, _)
NatLeqFrom(a, b, i) ==
    IF i = 0 THEN TRUE
    ELSE IF a[i] # b[i] THEN a[i] < b[i]
    ELSE NatLeqFrom(a, b, i - 1)

NatLeq(a, b) ==
    IF Len(a) # Len(b) THEN Len(a) < Len(b) ELSE NatLeqFrom(a, b, Len(a))

NatLt(a, b) == ~NatLeq(b, a)

\* a * k + c for a small k (0 < k <= Base, 0 <= c < Base).
RECURSIVE NatMulSmallC(_, _, _)
NatMulSmallC(a, k, c) ==
    IF a = <<>> THEN (IF c = 0 THEN <<>> ELSE <<c>>)
    ELSE LET p == Head(a) * k + c
         IN  <<p % Base>> \o NatMulSmallC(Tail(a), k, p \div Base)

NatMulSmall(a, k) == IF k = 0 THEN <<>> ELSE NatMulSmallC(a, k, 0)

RECURSIVE NatMul(_, _)
NatMul(a, b) ==
    IF a = <<>> \/ b = <<>> THEN <<>>
    ELSE NatAdd(NatMulSmall(a, Head(b)),
                IF Tail(b) = <<>> THEN <<>> ELSE <<0>> \o NatMul(a, Tail(b)))

\* floor(a / k) for a small k, limbs taken from the most significant; r is
\* the running remainder.
RECURSIVE NatDivSmallFrom(_, _, _, _)
NatDivSmallFrom(a, k, i, r) ==
    IF i = 0 THEN <<>>
    ELSE LET n == r * Base + a[i]
         IN  NatDivSmallFrom(a, k, i - 1, n % k) \o <<n \div k>>

NatDivSmall(a, k) == NatTrim(NatDivSmallFrom(a, k, Len(a), 0))

RECURSIVE Zeros(_)
Zeros(n) == IF n = 0 THEN <<>> ELSE <<0>> \o Zeros(n - 1)

\* a * 2^n
NatShl(a, n) ==
    IF a = <<>> THEN <<>>
    ELSE Zeros(n \div LimbBits) \o NatMulSmall(a, Pow2Int(n % LimbBits))

\* floor(a / 2^n)
NatShr(a, n) ==
    IF n \div LimbBits >= Len(a) THEN <<>>
    ELSE NatDivSmall(SubSeq(a, (n \div LimbBits) + 1, Len(a)),
                     Pow2Int(n % LimbBits))

\* a mod 2^n
NatLow(a, n) == NatSub(a, NatShl(NatShr(a, n), n))

NatPow2(n) == NatShl(<<1>>, n)

NatBitLen(a) ==
    IF a = <<>> THEN 0 ELSE LimbBits * (Len(a) - 1) + IntBitLen(a[Len(a)])

NatIsOdd(a) == a # <<>> /\ a[1] % 2 = 1

\* floor(n / b) where b's top limb is at least Base / 2 and n < b * Base
\* (Knuth's algorithm D): the estimate from the top limbs is at most 2 too
\* large.
NatDivDigit(n, b) ==
    LET m   == Len(b)
        top == (IF Len(n) > m THEN n[m + 1] * Base ELSE 0)
                 + (IF Len(n) >= m THEN n[m] ELSE 0)
        q0  == IF top \div b[m] >= Base THEN Base - 1 ELSE top \div b[m]
        q1  == IF NatLeq(NatMulSmall(b, q0), n) THEN q0 ELSE q0 - 1
    IN  IF NatLeq(NatMulSmall(b, q1), n) THEN q1 ELSE q1 - 1

\* Long division of limbs i, i-1, ..., 1 of a by b, r the running remainder:
\* <<the quotient's limbs from the most significant, the remainder>>.  Each
\* digit is computed before the division of the lower limbs is entered.
RECURSIVE NatDivModFrom(_, _, _, _)
NatDivModFrom(a, b, i, r) ==
    IF i = 0 THEN <<(<<>>), r>>
    ELSE LET n    == NatTrim(<<a[i]>> \o r)
             d    == NatDivDigit(n, b)
             rest == NatDivModFrom(a, b, i - 1, NatSub(n, NatMulSmall(b, d)))
         IN  <<(<<d>>) \o rest[1], rest[2]>>

NatReverse(a) == [i \in 1 .. Len(a) |-> a[Len(a) + 1 - i]]

\* <<floor(a / b), a mod b>> for b > 0; both are first shifted so that b's top
\* limb is at least Base / 2.
NatDivMod(a, b) ==
    LET sh == LimbBits - IntBitLen(b[Len(b)])
        qr == NatDivModFrom(NatShl(a, sh), NatShl(b, sh), Len(NatShl(a, sh)), <<>>)
    IN  <<NatTrim(NatReverse(qr[1])), NatShr(qr[2], sh)>>

RECURSIVE IntTrailingZeros(_)
IntTrailingZeros(n) == IF n % 2 = 1 THEN 0 ELSE 1 + IntTrailingZeros(n \div 2)

\* The number of trailing zero bits of a > 0.
RECURSIVE NatTrailingZeros(_)
NatTrailingZeros(a) ==
    IF Head(a) = 0 THEN LimbBits + NatTrailingZeros(Tail(a))
    ELSE IntTrailingZeros(Head(a))

----------------------------------------------------------------------------
(* f64 arithmetic on non-negative values, round to nearest, ties to even. *)

\* Significant bits of an f64.
F64_MANTISSA_DIGITS == 53

\* Every finite f64 is below 2^F64_MAX_EXP.
F64_MAX_EXP == 1024

F64Zero == [cls |-> "fin", man |-> <<>>, exp |-> 0]
F64Inf  == [cls |-> "inf", man |-> <<>>, exp |-> 0]
F64NaN  == [cls |-> "nan", man |-> <<>>, exp |-> 0]

IsFinite(x) == x.cls = "fin"
IsZero(x)   == x.cls = "fin" /\ x.man = <<>>

\* The f64 of value man * 2^exp, which needs no rounding.
F64Exact(man, exp) ==
    IF man = <<>> THEN F64Zero
    ELSE IF NatBitLen(man) + exp > F64_MAX_EXP THEN F64Inf
    ELSE LET tz == NatTrailingZeros(man)
         IN  [cls |-> "fin", man |-> NatShr(man, tz), exp |-> exp + tz]

\* The f64 nearest to (man + f) * 2^exp, where 0 < f < 1 if sticky and f = 0
\* otherwise; a sticky man has more than F64_MANTISSA_DIGITS bits.
F64Round(man, exp, sticky) ==
    LET len  == NatBitLen(man)
        drop == len - F64_MANTISSA_DIGITS
    IN  IF drop <= 0 THEN F64Exact(man, exp)
        ELSE LET kept == NatShr(man, drop)
                 low  == NatLow(man, drop)
                 half == NatPow2(drop - 1)
                 up   == IF low = half
                         THEN sticky \/ NatIsOdd(kept)
                         ELSE NatLt(half, low)
             IN  F64Exact(IF up THEN NatAdd(kept, <<1>>) ELSE kept, exp + drop)

F64Add(a, b) ==
    IF a.cls = "nan" \/ b.cls = "nan" THEN F64NaN
    ELSE IF a.cls = "inf" \/ b.cls = "inf" THEN F64Inf
    ELSE IF IsZero(a) THEN b
    ELSE IF IsZero(b) THEN a
    ELSE LET e == IF a.exp < b.exp THEN a.exp ELSE b.exp
         IN  F64Round(NatAdd(NatShl(a.man, a.exp - e), NatShl(b.man, b.exp - e)),
                      e, FALSE)

F64Mul(a, b) ==
    IF a.cls = "nan" \/ b.cls = "nan" THEN F64NaN
    ELSE IF a.cls = "inf" \/ b.cls = "inf"
         THEN (IF IsZero(a) \/ IsZero(b) THEN F64NaN ELSE F64Inf)
    ELSE F64Round(NatMul(a.man, b.man), a.exp + b.exp, FALSE)

F64Div(a, b) ==
    IF a.cls = "nan" \/ b.cls = "nan" THEN F64NaN
    ELSE IF a.cls = "inf" THEN (IF b.cls = "inf" THEN F64NaN ELSE F64Inf)
    ELSE IF b.cls = "inf" THEN F64Zero
    ELSE IF IsZero(b) THEN (IF IsZero(a) THEN F64NaN ELSE F64Inf)
    ELSE IF IsZero(a) THEN F64Zero
    ELSE LET s  == F64_MANTISSA_DIGITS + 2 + NatBitLen(b.man) - NatBitLen(a.man)
             qr == NatDivMod(NatShl(a.man, s), b.man)
         IN  F64Round(qr[1], a.exp - b.exp - s, qr[2] # <<>>)

----------------------------------------------------------------------------
(* u32 *)

U32_BITS == 32

\* std::u32::MAX
U32_MAX == NatSub(NatPow2(U32_BITS), <<1>>)

\* `n as f64` for a u32 n: exact.
U32AsF64(n) == F64Round(n, 0, FALSE)

\* F64AsU32 with the value rounded to the nearest integer instead of truncated.
F64AsU32_Rounding(x) ==
    IF x.cls = "nan" THEN <<>>
    ELSE IF x.cls = "inf" THEN U32_MAX
    ELSE IF NatBitLen(x.man) + x.exp > U32_BITS THEN U32_MAX
    ELSE IF x.exp >= 0 THEN NatShl(x.man, x.exp)
    ELSE NatShr(NatAdd(x.man, NatPow2((0 - x.exp) - 1)), 0 - x.exp)

\* `x as u32`: truncates toward zero, saturates, and takes NaN to 0.
F64AsU32(x) ==
    IF x.cls = "nan" THEN <<>>
    ELSE IF x.cls = "inf" THEN U32_MAX
    ELSE IF NatBitLen(x.man) + x.exp > U32_BITS THEN U32_MAX
    ELSE IF x.exp >= 0 THEN NatShl(x.man, x.exp)
    ELSE NatShr(x.man, 0 - x.exp)

\* u32 addition: the wrapped sum and whether it overflowed (a panic in a build
\* with overflow checks, the wrapped value without them).
U32Add(a, b) ==
    LET s == NatAdd(a, b)
    IN  [val |-> NatLow(s, U32_BITS), ovf |-> NatLt(U32_MAX, s)]

----------------------------------------------------------------------------
(* The alphabet and the density functions. *)

\* std::u8::MAX as usize
RANGE_MAX == 255

RANGE_SIZE == RANGE_MAX + 1

RANGE == 0 .. RANGE_MAX

\* MAX_TOT_FREQ without the room for the 256 floors of 1.
MAX_TOT_FREQ_NoHeadroom == U32_MAX

\* std::u32::MAX - (std::u8::MAX as u32 + 1)
MAX_TOT_FREQ == NatSub(U32_MAX, NatOfInt(RANGE_MAX + 1))

\* Exponent of the largest weight the model's density functions give.
BigExp == 34

F64One   == F64Exact(<<1>>, 0)
F64Three == F64Exact(<<3>>, 0)
F64Big   == F64Exact(<<1>>, BigExp)

Abs(n) == IF n < 0 THEN 0 - n ELSE n

\* PDF::freq for the implementors of the trait that the model draws from:
\* "flat" weighs every value h, "point" weighs the value m h and the others
\* 0, "tri" is a peak of height w * h at m that falls by h per step down to 0.
PDF_freq(p, v) ==
    CASE p.kind = "flat"  -> p.h
      [] p.kind = "point" -> IF v = p.m THEN p.h ELSE F64Zero
      [] p.kind = "tri"   -> IF Abs(v - p.m) >= p.w THEN F64Zero
                             ELSE F64Mul(p.h, F64Exact(NatOfInt(p.w - Abs(v - p.m)), 0))

PDFChoices ==
    { [kind |-> "flat",  m |-> 0,   w |-> 0, h |-> F64Zero],
      [kind |-> "flat",  m |-> 0,   w |-> 0, h |-> F64One],
      [kind |-> "point", m |-> 128, w |-> 0, h |-> F64Three],
      [kind |-> "point", m |-> 30,  w |-> 0, h |-> F64Big],
      [kind |-> "tri",   m |-> 70,  w |-> 3, h |-> F64One],
      [kind |-> "point", m |-> 255, w |-> 0, h |-> F64Inf] }

----------------------------------------------------------------------------
(* PDFSet::finalize *)

\* self.pdf_list.iter().map(|p| p.freq(x)).sum::<f64>(): a left fold from 0.
RECURSIVE SumFreq(_, _, _)
SumFreq(list, n, x) ==
    IF n = 0 THEN F64Zero
    ELSE F64Add(SumFreq(list, n - 1, x), PDF_freq(list[n], x))

\* .fold(0f64, |cum, freq| cum + freq) over src[lo], ..., src[hi] from acc, in
\* ascending order: fold(acc, lo..hi) = fold(fold(acc, lo..mid), mid+1..hi).
\* A NaN acc stays NaN whatever is added; testing it first also has TLC
\* evaluate the fold of the lower half before it descends into the upper.
RECURSIVE FoldFreq(_, _, _, _)
FoldFreq(src, acc, lo, hi) ==
    IF acc.cls = "nan" THEN acc
    ELSE IF lo = hi THEN F64Add(acc, src[lo])
    ELSE LET mid == (lo + hi) \div 2
         IN  FoldFreq(src, FoldFreq(src, acc, lo, mid), mid + 1, hi)

\* Quantize without the floor of 1.
Quantize_NoFloor(src, tot) ==
    U32Add(F64AsU32(F64Mul(U32AsF64(MAX_TOT_FREQ), F64Div(src, tot))), <<>>)

\* (MAX_TOT_FREQ as f64 * (freq_src[x] / tot_freq_src)) as u32 + 1
Quantize(src, tot) ==
    U32Add(F64AsU32(F64Mul(U32AsF64(MAX_TOT_FREQ), F64Div(src, tot))), <<1>>)

\* Scan pushing cum after the addition: an inclusive prefix sum.
RECURSIVE Scan_Inclusive(_, _, _, _)
Scan_Inclusive(q, cum, lo, hi) ==
    IF lo = hi
    THEN LET s == U32Add(cum, q[lo].val)
         IN  [freq |-> <<q[lo].val>>, cum_freq |-> <<s.val>>, cum |-> s.val,
              ovf |-> s.ovf]
    ELSE LET mid == (lo + hi) \div 2
             l   == Scan_Inclusive(q, cum, lo, mid)
             r   == Scan_Inclusive(q, l.cum, mid + 1, hi)
         IN  [freq |-> l.freq \o r.freq, cum_freq |-> l.cum_freq \o r.cum_freq,
              cum |-> r.cum, ovf |-> l.ovf \/ r.ovf]

\* .scan(0, |cum, freq| { let c = cum.clone(); *cum += freq; Some((freq, c)) })
\* over q[lo], ..., q[hi] from cum, in ascending order: the pairs pushed, the
\* final cum and whether an addition overflowed.
RECURSIVE Scan(_, _, _, _)
Scan(q, cum, lo, hi) ==
    IF lo = hi
    THEN LET s == U32Add(cum, q[lo].val)
         IN  [freq |-> <<q[lo].val>>, cum_freq |-> <<cum>>, cum |-> s.val,
              ovf |-> s.ovf]
    ELSE LET mid == (lo + hi) \div 2
             l   == Scan(q, cum, lo, mid)
             r   == Scan(q, l.cum, mid + 1, hi)
         IN  [freq |-> l.freq \o r.freq, cum_freq |-> l.cum_freq \o r.cum_freq,
              cum |-> r.cum, ovf |-> l.ovf \/ r.ovf]

\* The table finalize builds from list, with tot_freq_src; every distinct
\* weight is quantized once and looked up per value.  ovf: the `+ 1` of a
\* quantization or the `*cum += freq` of the scan overflowed.
Finalize(list) ==
    LET freq_src == [x \in RANGE |-> SumFreq(list, Len(list), x)]
        tot      == FoldFreq(freq_src, F64Zero, 0, RANGE_MAX)
        weights  == {freq_src[x] : x \in RANGE}
        quant    == {<<w, Quantize(w, tot)>> : w \in weights}
        q        == [x \in RANGE |->
                        (CHOOSE e \in quant : e[1] = freq_src[x])[2]]
        sc       == Scan(q, <<>>, 0, RANGE_MAX)
    IN  [tot      |-> tot,
         ovf      |-> (\E e \in quant : e[2].ovf) \/ sc.ovf,
         freq     |-> [x \in RANGE |-> sc.freq[x + 1]],
         cum_freq |-> [x \in RANGE |-> sc.cum_freq[x + 1]]]

----------------------------------------------------------------------------
(* The state. *)

VARIABLES
    pc,           \* "building": a PDFSet; "ready": a QuantizedPDFSet;
                  \* "searching", "found": inside and after find_index
    pdf_list,     \* PDFSet::pdf_list
    freq,         \* QuantizedPDFSet::freq (all 0 until finalize builds it)
    cum_freq,     \* QuantizedPDFSet::cum_freq (likewise)
    tot_freq_src, \* finalize's tot_freq_src
    overflowed,   \* a u32 addition of finalize overflowed
    rfreq,        \* find_index's rfreq (u64)
    left,         \* find_index's left
    right,        \* find_index's right
    probes,       \* iterations of find_index's loop so far
    index         \* the value find_index returned

vars == <<pc, pdf_list, freq, cum_freq, tot_freq_src, overflowed, rfreq, left,
          right, probes, index>>

\* QuantizedPDFSet::c_freq
c_freq(i) == freq[i]

\* total_freq without the last symbol's count.
total_freq_NoLast == cum_freq[RANGE_MAX]

\* QuantizedPDFSet::total_freq: a u32 addition.
total_freq == U32Add(cum_freq[RANGE_MAX], freq[RANGE_MAX]).val

U64_BITS == 64

\* The values the decoder's rfreq is drawn from: both ends of every symbol's
\* interval, the total, and values past it up to u64::MAX.
Residuals ==
    LET tot == NatAdd(cum_freq[RANGE_MAX], freq[RANGE_MAX])
    IN  {cum_freq[i] : i \in RANGE}
          \cup {NatSub(NatAdd(cum_freq[i], freq[i]), <<1>>) : i \in {j \in RANGE : freq[j] # <<>>}}
          \cup {tot, NatAdd(tot, <<1>>), NatPow2(U32_BITS),
                NatSub(NatPow2(U64_BITS), <<1>>)}

\* PDFSet::new(vec)
Init ==
    /\ pdf_list \in {<<>>} \cup {<<p>> : p \in PDFChoices}
    /\ pc = "building"
    /\ freq = [x \in RANGE |-> <<>>]
    /\ cum_freq = [x \in RANGE |-> <<>>]
    /\ tot_freq_src = F64Zero
    /\ overflowed = FALSE
    /\ rfreq = <<>>
    /\ left = 0
    /\ right = 0
    /\ probes = 0
    /\ index = 0

\* PDFSet::add_pdf
add_pdf(pdf) ==
    /\ pc = "building"
    /\ Len(pdf_list) < MaxPdfs
    /\ pdf_list' = Append(pdf_list, pdf)
    /\ UNCHANGED <<pc, freq, cum_freq, tot_freq_src, overflowed, rfreq, left,
                   right, probes, index>>

\* PDFSet::finalize: consumes the set.
finalize ==
    /\ pc = "building"
    /\ \E t \in {Finalize(pdf_list)} :
          /\ freq' = t.freq
          /\ cum_freq' = t.cum_freq
          /\ tot_freq_src' = t.tot
          /\ overflowed' = t.ovf
    /\ pdf_list' = <<>>
    /\ pc' = "ready"
    /\ UNCHANGED <<rfreq, left, right, probes, index>>

\* find_index, up to its loop, for a decoder whose rfreq is one of Residuals.
find_index_enter ==
    /\ pc = "ready"
    /\ left' = 0
    /\ right' = RANGE_MAX
    /\ \E r \in Residuals : rfreq' = r
    /\ probes' = 0
    /\ pc' = "searching"
    /\ UNCHANGED <<pdf_list, freq, cum_freq, tot_freq_src, overflowed, index>>

\* find_index_probe comparing with < where the code compares with <=.
find_index_probe_Strict ==
    /\ pc = "searching"
    /\ left < right
    /\ LET mid     == (left + right) \div 2
           mid_cum == cum_freq[mid + 1]
       IN  IF NatLt(mid_cum, rfreq)
           THEN left' = mid + 1 /\ right' = right
           ELSE right' = mid /\ left' = left
    /\ probes' = probes + 1
    /\ UNCHANGED <<pc, pdf_list, freq, cum_freq, tot_freq_src, overflowed,
                   rfreq, index>>

\* find_index_probe moving left to mid where the code moves it to mid + 1.
find_index_probe_NoAdvance ==
    /\ pc = "searching"
    /\ left < right
    /\ LET mid     == (left + right) \div 2
           mid_cum == cum_freq[mid + 1]
       IN  IF NatLeq(mid_cum, rfreq)
           THEN left' = mid /\ right' = right
           ELSE right' = mid /\ left' = left
    /\ probes' = probes + 1
    /\ UNCHANGED <<pc, pdf_list, freq, cum_freq, tot_freq_src, overflowed,
                   rfreq, index>>

\* One iteration of `while left < right`.
find_index_probe ==
    /\ pc = "searching"
    /\ left < right
    /\ LET mid     == (left + right) \div 2
           mid_cum == cum_freq[mid + 1]
       IN  IF NatLeq(mid_cum, rfreq)
           THEN left' = mid + 1 /\ right' = right
           ELSE right' = mid /\ left' = left
    /\ probes' = probes + 1
    /\ UNCHANGED <<pc, pdf_list, freq, cum_freq, tot_freq_src, overflowed,
                   rfreq, index>>

\* The loop's exit: find_index returns left.
find_index_return ==
    /\ pc = "searching"
    /\ ~(left < right)
    /\ index' = left
    /\ pc' = "found"
    /\ UNCHANGED <<pdf_list, freq, cum_freq, tot_freq_src, overflowed, rfreq,
                   left, right, probes>>

\* The decoder takes the index and goes on to its next symbol: the table is
\* as it was, find_index's locals are gone.
decode_next ==
    /\ pc = "found"
    /\ pc' = "ready"
    /\ rfreq' = <<>>
    /\ left' = 0
    /\ right' = 0
    /\ probes' = 0
    /\ index' = 0
    /\ UNCHANGED <<pdf_list, freq, cum_freq, tot_freq_src, overflowed>>

Next ==
    \/ \E pdf \in PDFChoices : add_pdf(pdf)
    \/ finalize
    \/ find_index_enter
    \/ find_index_probe
    \/ find_index_return
    \/ decode_next

Spec == Init /\ [][Next]_vars

----------------------------------------------------------------------------
(* Properties. *)

\* A weight above 0: finalize's tot_freq_src is never NaN for non-negative
\* weights, and +infinity is above 0.
F64Positive(x) == x.cls = "inf" \/ (x.cls = "fin" /\ x.man # <<>>)

\* cum_freq[RANGE_MAX] + freq[RANGE_MAX] as an integer, without u32's wrap.
ExactTotal == NatAdd(cum_freq[RANGE_MAX], freq[RANGE_MAX])

\* The integer sum of freq[lo], ..., freq[hi].
RECURSIVE SumCounts(_, _)
SumCounts(lo, hi) ==
    IF lo = hi THEN freq[lo]
    ELSE NatAdd(SumCounts(lo, (lo + hi) \div 2),
                SumCounts(((lo + hi) \div 2) + 1, hi))

\* r lies in symbol i's interval [cum_freq[i], cum_freq[i] + freq[i]).
InInterval(i, r) ==
    NatLeq(cum_freq[i], r) /\ NatLt(r, NatAdd(cum_freq[i], freq[i]))

\* floor(0.9999999 * u32::MAX), the bound of tests::use_full_range: the test's
\* fused multiply-add is non-negative exactly when total_freq is above it.
FullRange ==
    NatDivMod(NatMul(U32_MAX, NatOfInt(9999999)), NatOfInt(10000000))[1]

\* The probes a search of RANGE can take: log2(RANGE_SIZE).
ProbeLimit == IntBitLen(RANGE_MAX)

\* C1: every count of a table returned by finalize is at least 1, whatever
\* the weights were.
C1_Positivity ==
    pc = "ready" => \A i \in RANGE : NatLeq(<<1>>, c_freq(i))

\* C1's case: a table of a finite positive total in which one symbol is at the
\* floor of 1 and another holds more than half of the range.
C1_Witness ==
    /\ pc = "ready"
    /\ IsFinite(tot_freq_src) /\ F64Positive(tot_freq_src)
    /\ \E i \in RANGE : c_freq(i) = <<1>>
    /\ \E j \in RANGE : NatLt(NatPow2(U32_BITS - 1), c_freq(j))

\* C2: cum_freq is the exact exclusive prefix sum of freq, and total_freq is
\* cum_freq[255] + freq[255], the integer sum of all 256 counts, unwrapped.
C2_PrefixSum ==
    pc = "ready" =>
        /\ cum_freq[0] = <<>>
        /\ \A i \in 0 .. (RANGE_MAX - 1) :
              cum_freq[i + 1] = NatAdd(cum_freq[i], freq[i])
        /\ total_freq = ExactTotal
        /\ total_freq = SumCounts(0, RANGE_MAX)

\* C2's case: a table whose counts differ and whose total is past 2^31.
C2_Witness ==
    /\ pc = "ready"
    /\ \E i \in RANGE : freq[i] # freq[0]
    /\ NatLt(NatPow2(U32_BITS - 1), total_freq)

\* C3: for a residual below the total, find_index returns the one symbol
\* whose interval holds it.
C3_Inversion ==
    (pc = "found" /\ NatLt(rfreq, ExactTotal)) =>
        /\ InInterval(index, rfreq)
        /\ \A i \in RANGE : InInterval(i, rfreq) => index = i

\* C3's case: a search that returned a symbol strictly inside the alphabet for
\* the last residual of that symbol's interval, wider than 1.
C3_Witness ==
    /\ pc = "found"
    /\ index > 0 /\ index < RANGE_MAX
    /\ NatLt(<<1>>, freq[index])
    /\ NatAdd(rfreq, <<1>>) = NatAdd(cum_freq[index], freq[index])

\* C5: for a positive total weight no u32 addition of finalize overflows and
\* every running sum cum_freq[i] + freq[i], the total included, is at most
\* MAX_TOT_FREQ + 256 = u32::MAX.
C5_NoOverflow ==
    (pc = "ready" /\ F64Positive(tot_freq_src)) =>
        /\ ~overflowed
        /\ NatAdd(MAX_TOT_FREQ, NatOfInt(RANGE_SIZE)) = U32_MAX
        /\ \A i \in RANGE :
              NatLeq(NatAdd(cum_freq[i], freq[i]),
                     NatAdd(MAX_TOT_FREQ, NatOfInt(RANGE_SIZE)))

\* C5's case: a positive total weight whose running sum ends at u32::MAX.
C5_Witness ==
    /\ pc = "ready"
    /\ F64Positive(tot_freq_src)
    /\ ExactTotal = U32_MAX

\* C6 as claimed: total_freq is below u32::MAX, and below
\* 0.9999999 * u32::MAX.
C6_Headroom ==
    pc = "ready" =>
        /\ NatLt(total_freq, U32_MAX)
        /\ NatLeq(total_freq, FullRange)

\* C6 as amended: the counts of a table sum to at most u32::MAX, so total_freq
\* fits a u32 and nothing wrapped; u32::MAX itself is reached.
C6_FitsU32 ==
    pc = "ready" =>
        /\ ~overflowed
        /\ NatLeq(SumCounts(0, RANGE_MAX), U32_MAX)

\* C6's case: a table whose total is u32::MAX.
C6_Witness ==
    pc = "ready" /\ total_freq = U32_MAX

\* C7: for a positive finite total weight total_freq is at least
\* 0.9999999 * u32::MAX.
C7_FullRange ==
    (pc = "ready" /\ IsFinite(tot_freq_src) /\ F64Positive(tot_freq_src)) =>
        NatLt(FullRange, total_freq)

\* C7's case: a positive finite total weight whose truncations lose part of
\* the range.
C7_Witness ==
    /\ pc = "ready"
    /\ IsFinite(tot_freq_src) /\ F64Positive(tot_freq_src)
    /\ NatLt(total_freq, U32_MAX)

\* C8 as claimed: finalize returns no table for a total weight that is not
\* positive.
C8_Degenerate ==
    pc = "ready" => F64Positive(tot_freq_src)

\* C9 as claimed: find_index returns no symbol for a residual at or past the
\* total.
C9_ProtocolViolation ==
    pc = "found" => NatLt(rfreq, ExactTotal)

\* C10: at every probe 0 <= left <= mid < right <= 255, so mid + 1 is an
\* index of the table; the interval left..right halves with every probe, and
\* the loop ends with left = right after at most 8 probes.
C10_SearchBounds ==
    /\ pc = "searching" =>
          /\ 0 <= left /\ left <= right /\ right <= RANGE_MAX
          /\ probes <= ProbeLimit
          /\ (right - left + 1) * (2 ^ probes) <= RANGE_SIZE
          /\ left < right =>
                LET mid == (left + right) \div 2
                IN  left <= mid /\ mid < right /\ mid + 1 <= RANGE_MAX
    /\ pc = "found" => left = right /\ index = left /\ probes <= ProbeLimit

\* C10's case: a search for a residual past the total that has ended, after
\* 8 probes.
C10_Witness ==
    /\ pc = "found"
    /\ NatLeq(ExactTotal, rfreq)
    /\ probes = ProbeLimit

============================================================================
